---- MODULE Spec2Model ----
(***************************************************************************)
(* The client-side relay core of relayer/chainproxy: SendRelay with its    *)
(* two callbacks (callback_send_relay, callback_send_reliability) and      *)
(* VerifyRelayReply.  The session manager (lavasession), the sentry's      *)
(* SendRelay orchestration and UpdateRequestedBlock live outside the       *)
(* sources at hand and are modelled from the specification.                *)
(***************************************************************************)
EXTENDS Integers, Sequences, FiniteSets, TLC

\* ---- bounds of the model ----
NumCalls == 2        \* concurrent SendRelay invocations, each runs once
NumSessions == 2     \* sessions (one per provider) held by the session manager
MaxAttempts == 2     \* primary callback invocations per orchestrated relay
MaxEpoch == 2        \* epochs / block heights the chain advances through
MaxHist == 3         \* relays recorded per session

Calls == 1 .. NumCalls
Sessions == 1 .. NumSessions
Blocks == 1 .. MaxEpoch

\* ---- values ----
None == "nil"
LATEST_BLOCK == -2
UnsetBlockHeight == -1
InitialRequestedBlock == 0
ReliabilitySessionId == 0

\* error kinds, by the text of err.Error() where the code looks at it
DeadlineExceeded == "context deadline exceeded"
Canceled == "context canceled"
SigningError == "signing failed"
VrfSigningError == "vrf signing failed"
AddressMismatch == "server address mismatch in reply"
SigBlocksMismatch == "server address mismatch in reply sigblocks"
ParseError == "parse error"
NoSessionError == "no available session"
BlockHeightUnset == "expected callback_send_relay to be called first and set blockHeight"
TransportErrors == {DeadlineExceeded, Canceled}

\* ---- keys and addresses ----
\* the key of the provider behind session s, the consumer's own key, a
\* stranger's key, and the key a recovery over the wrong message yields
ProviderKey(s) == <<"provider", s>>
ConsumerKey == <<"consumer", 0>>
StrangerKey == <<"stranger", 0>>
GarbageKey == <<"garbage", 0>>

\* serverKey.Address().String(): the hex text of a key's address
HexOf(k) == <<"hex", k>>
\* sdk.AccAddressFromHex / sdk.AccAddressFromBech32: text -> address bytes
AccAddressFromHex(h) == IF h[1] = "hex" THEN <<"acc", h[2]>> ELSE <<"err", h[2]>>
AccAddressFromBech32(b) == IF b[1] = "lava@" THEN <<"acc", b[2]>> ELSE <<"err", b[2]>>
\* AccAddress.String(): address bytes -> bech32 text
Bech32Of(a) == <<"lava@", a[2]>>

\* consumerSession.Client.Acc: the provider account of session s
ClientAcc(s) == Bech32Of(AccAddressFromHex(HexOf(ProviderKey(s))))
NoAcc == <<"lava@", GarbageKey>>

\* int64(epoch) of a uint64: epochs are block heights, far below 2^63, where the
\* conversion keeps the value
ToInt64(u) == u

\* ---- messages, requests, replies ----
NilMsg == [sub |-> FALSE, hint |-> 0, rel |-> FALSE]
\* what ParseMsg can return: subscription or unary, the requested-block hint,
\* and whether the API's category asks for a data-reliability follow-up
Messages == {m \in [sub : BOOLEAN, hint : {LATEST_BLOCK, 1}, rel : BOOLEAN] :
                m.sub => ~m.rel}

NilQoSReport == [nil |-> TRUE, Deviation |-> 0]

NilRequest == [nil |-> TRUE, Provider |-> NoAcc, SessionId |-> 0, BlockHeight |-> 0,
               RequestBlock |-> 0, QoSReport |-> NilQoSReport, DataReliability |-> FALSE,
               Sig |-> FALSE, VrfSig |-> FALSE]

NilReply == [nil |-> TRUE, LatestBlock |-> 0, signer |-> GarbageKey,
             finSigner |-> GarbageKey, finBoundTo |-> <<"acc", GarbageKey>>]

\* the replies a provider (or whoever answers for it) can put on the wire for the
\* provider with key p: signed by p or by a stranger; finalization data signed by
\* p, bound to the consumer's address or to the provider's own
RepliesFor(p) ==
    {[nil |-> FALSE, LatestBlock |-> b, signer |-> v[1], finSigner |-> v[2],
      finBoundTo |-> <<"acc", v[3]>>] :
        b \in Blocks,
        v \in {<<p, p, ConsumerKey>>, <<p, p, p>>, <<StrangerKey, p, ConsumerKey>>}}

VARIABLES
    call,            \* per SendRelay invocation: position, locals, captured variables, results
    session,         \* per session: lock and QoSInfo
    currentEpoch,    \* the sentry's current epoch, also its expected block height
    comparesHashes,  \* cp.GetSentry().GetSpecComparesHashes()
    hist,            \* per session: the primary sends that timed out ("T") or were
                     \* answered ("A") on it, oldest first
    verification     \* one VerifyRelayReply call on its own: arguments and outcome

vars == <<call, session, currentEpoch, comparesHashes, hist, verification>>

NoCall == [pc |-> "start", msg |-> NilMsg, sess |-> 0, epoch |-> 0,
           blockHeight |-> UnsetBlockHeight, requestedBlock |-> InitialRequestedBlock,
           attempts |-> 0, expired |-> FALSE,
           request |-> NilRequest, cbReply |-> NilReply,
           cbServer |-> None, cbErr |-> None,
           relSess |-> 0, relRequest |-> NilRequest,
           relErr |-> None, relFin |-> None, reported |-> None,
           reply |-> NilReply, replyServer |-> None, err |-> None, done |-> 0]

\* no VerifyRelayReply call on its own is being looked at
NoVerification == [reply |-> NilReply, addr |-> NoAcc, ran |-> FALSE,
                   err |-> None, fin |-> None]

NoQoS == [TotalRelays |-> 0, AnsweredRelays |-> 0, ConsecutiveTimeOut |-> 0,
          LastQoSReport |-> NilQoSReport]

Init ==
    /\ call = [c \in Calls |-> NoCall]
    /\ session = [s \in Sessions |-> [locked |-> FALSE, QoSInfo |-> NoQoS]]
    /\ currentEpoch = 1
    /\ comparesHashes \in BOOLEAN
    /\ hist = [s \in Sessions |-> <<>>]
    /\ verification = NoVerification


\* ---- signature recovery (package sigs) ----
\* the key that produced the reply's signature over the reply and its request
RecoverPubKeyFromRelayReply(reply, relayRequest) == reply.signer
\* the key that produced the finalization signature, recovered over the data
\* bound to addr: another binding address yields an unrelated key
RecoverPubKeyFromResponseFinalizationData(reply, relayRequest, addr) ==
    IF reply.finBoundTo = addr THEN reply.finSigner ELSE GarbageKey

\* variant: the reply's own signature is not looked at
VerifyRelayReplyRunUnsigned(reply, relayRequest, addr, cmpHashes) ==
    IF cmpHashes
    THEN LET strAdd == AccAddressFromBech32(addr)
             finKey == RecoverPubKeyFromResponseFinalizationData(reply, relayRequest, strAdd)
             finAddr == AccAddressFromHex(HexOf(finKey))
         IN  IF Bech32Of(finAddr) # Bech32Of(strAdd)
             THEN [err |-> SigBlocksMismatch, fin |-> "checked"]
             ELSE [err |-> None, fin |-> "checked"]
    ELSE [err |-> None, fin |-> "skipped"]

\* VerifyRelayReply, step by step: the error it returns and whether the
\* finalization (sigblocks) check was run
VerifyRelayReplyRun(reply, relayRequest, addr, cmpHashes) ==
    LET serverKey == RecoverPubKeyFromRelayReply(reply, relayRequest)
        serverAddr == AccAddressFromHex(HexOf(serverKey))
    IN  IF Bech32Of(serverAddr) # addr
        THEN [err |-> AddressMismatch, fin |-> "not reached"]
        ELSE IF cmpHashes
        THEN LET strAdd == AccAddressFromBech32(addr)
                 finKey == RecoverPubKeyFromResponseFinalizationData(reply, relayRequest, strAdd)
                 finAddr == AccAddressFromHex(HexOf(finKey))
             IN  IF Bech32Of(finAddr) # Bech32Of(strAdd)
                 THEN [err |-> SigBlocksMismatch, fin |-> "checked"]
                 ELSE [err |-> None, fin |-> "checked"]
        ELSE [err |-> None, fin |-> "skipped"]

VerifyRelayReply(reply, relayRequest, addr, cmpHashes) ==
    VerifyRelayReplyRun(reply, relayRequest, addr, cmpHashes).err

\* ---- sentry helpers ----
\* sentry.UpdateRequestedBlock: a "latest" hint becomes the block the reply reports
UpdateRequestedBlock(relayRequest, reply) ==
    IF relayRequest.RequestBlock = LATEST_BLOCK
    THEN [relayRequest EXCEPT !.RequestBlock = reply.LatestBlock]
    ELSE relayRequest

\* cp.GetSentry().ExpectedBlockHeight(), read when called
ExpectedBlockHeight == currentEpoch

\* consumerSession.CalculateQoS: records the score computed from the deviation
CalculateQoS(q, deviation) ==
    [q EXCEPT !.LastQoSReport = [nil |-> FALSE, Deviation |-> deviation]]

\* ---- the pieces of the callbacks ----
\* variant: the height is taken anew from the sentry's current epoch at each build
RecomputedBlockHeight(cl) == ToInt64(currentEpoch)

\* blockHeight = int64(epoch)
PinnedBlockHeight(cl) == ToInt64(cl.epoch)

\* the relayRequest of callback_send_relay, before signing
PrimaryRelayRequest(cl, q) ==
    [nil |-> FALSE, Provider |-> ClientAcc(cl.sess), SessionId |-> cl.sess,
     BlockHeight |-> PinnedBlockHeight(cl), RequestBlock |-> cl.msg.hint,
     QoSReport |-> q.LastQoSReport, DataReliability |-> FALSE,
     Sig |-> FALSE, VrfSig |-> FALSE]

\* variant: both kinds of send run under the deadline of connectCtx
SendContextAlwaysBounded(cl) == "connectCtx"

\* the context the transport call runs under: RelaySubscribe(ctx, ...) for a
\* subscription, Relay(connectCtx, ...) otherwise, where connectCtx is ctx with
\* the deadline of DefaultTimeout
SendContext(cl) == IF cl.msg.sub THEN "ctx" ELSE "connectCtx"

\* variant: a relay sent is not counted
OnRelaySentUncounted(q) == q

\* consumerSession.QoSInfo.TotalRelays++
OnRelaySent(q) == [q EXCEPT !.TotalRelays = @ + 1]

\* variant: every failed send counts as a timeout
OnSendErrorCountsAll(q, e) == [q EXCEPT !.ConsecutiveTimeOut = @ + 1]

\* if err != nil { if err.Error() == context.DeadlineExceeded.Error() { ...++ } }
OnSendError(q, e) ==
    IF e = DeadlineExceeded THEN [q EXCEPT !.ConsecutiveTimeOut = @ + 1] ELSE q

\* ConsecutiveTimeOut = 0; AnsweredRelays++
OnReplyReceived(q) == [q EXCEPT !.ConsecutiveTimeOut = 0, !.AnsweredRelays = @ + 1]

\* variant: the follow-up asks for the message's requested-block hint again
ReliabilityRelayRequestFromHint(cl) ==
    [nil |-> FALSE, Provider |-> ClientAcc(cl.relSess), SessionId |-> ReliabilitySessionId,
     BlockHeight |-> cl.blockHeight, RequestBlock |-> cl.msg.hint,
     QoSReport |-> NilQoSReport, DataReliability |-> TRUE,
     Sig |-> FALSE, VrfSig |-> FALSE]

\* the relayRequest of callback_send_reliability, before signing
ReliabilityRelayRequest(cl) ==
    [nil |-> FALSE, Provider |-> ClientAcc(cl.relSess), SessionId |-> ReliabilitySessionId,
     BlockHeight |-> cl.blockHeight, RequestBlock |-> cl.requestedBlock,
     QoSReport |-> NilQoSReport, DataReliability |-> TRUE,
     Sig |-> FALSE, VrfSig |-> FALSE]

\* variant: the verdict of VerifyRelayReply is dropped
ReliabilityResultUnchecked(reply, relayRequest, addr, cmpHashes) ==
    [reply |-> reply, request |-> relayRequest, err |-> None,
     fin |-> VerifyRelayReplyRun(reply, relayRequest, addr, cmpHashes).fin]

\* what callback_send_reliability returns after its transport call came back
\* with a reply: the verdict of VerifyRelayReply decides
ReliabilityResult(reply, relayRequest, addr, cmpHashes) ==
    LET v == VerifyRelayReplyRun(reply, relayRequest, addr, cmpHashes)
    IN  IF v.err # None
        THEN [reply |-> NilReply, request |-> NilRequest, err |-> v.err, fin |-> v.fin]
        ELSE [reply |-> reply, request |-> relayRequest, err |-> None, fin |-> v.fin]

\* ---- the session manager (package lavasession) ----
\* GetSession hands out a session nobody holds, locked, with the current epoch;
\* a session whose record of relays has no room for another call is left alone
FreeSessions == {s \in Sessions : ~session[s].locked /\ Len(hist[s]) + MaxAttempts <= MaxHist}

\* OnSessionDone unlocks the session
OnSessionDone(ses) == [ses EXCEPT !.locked = FALSE]

\* ---- one call between two waits ----
\* A call is followed from one wait (before it starts, during a transport call,
\* after it is over) to the next.  In between it touches only its own locals and
\* the session it holds: st.cl is the call, st.ses its session, st.h the
\* session's record of relays.
Waiting(cl) == cl.pc \in {"start", "primary_sent", "reliability_sent", "returned", "panicked"}

\* variant: the callback hands the session back as soon as the relay is sent
CallbackSendRelayReleasing(st) ==
    LET cl == [st.cl EXCEPT !.attempts = @ + 1, !.blockHeight = PinnedBlockHeight(st.cl),
                            !.expired = FALSE,
                            !.cbReply = NilReply, !.cbServer = None, !.cbErr = None]
        q == st.ses.QoSInfo
    IN  { [st EXCEPT !.cl = [cl EXCEPT !.pc = "primary_returned", !.request = NilRequest,
                                       !.cbErr = SigningError]],
          [st EXCEPT !.cl = [cl EXCEPT !.pc = "primary_sent",
                                       !.request = [PrimaryRelayRequest(cl, q) EXCEPT
                                                      !.Sig = TRUE]],
                     !.ses = OnSessionDone([st.ses EXCEPT !.QoSInfo = OnRelaySent(q)])] }

\* variant: the relay is counted before it is signed
CallbackSendRelayCountingFirst(st) ==
    LET cl == [st.cl EXCEPT !.attempts = @ + 1, !.blockHeight = PinnedBlockHeight(st.cl),
                            !.expired = FALSE,
                            !.cbReply = NilReply, !.cbServer = None, !.cbErr = None]
        q == st.ses.QoSInfo
    IN  { [st EXCEPT !.cl = [cl EXCEPT !.pc = "primary_returned", !.request = NilRequest,
                                       !.cbErr = SigningError],
                     !.ses.QoSInfo = OnRelaySent(q)],
          [st EXCEPT !.cl = [cl EXCEPT !.pc = "primary_sent",
                                       !.request = [PrimaryRelayRequest(cl, q) EXCEPT
                                                      !.Sig = TRUE]],
                     !.ses.QoSInfo = OnRelaySent(q)] }

\* callback_send_relay, invoked by the orchestrator, up to its transport call:
\* SignRelay fails and it returns the error, or the relay is counted and sent
CallbackSendRelay(st) ==
    LET cl == [st.cl EXCEPT !.attempts = @ + 1, !.blockHeight = PinnedBlockHeight(st.cl),
                            !.expired = FALSE,
                            !.cbReply = NilReply, !.cbServer = None, !.cbErr = None]
        q == st.ses.QoSInfo
    IN  { [st EXCEPT !.cl = [cl EXCEPT !.pc = "primary_returned", !.request = NilRequest,
                                       !.cbErr = SigningError]],
          [st EXCEPT !.cl = [cl EXCEPT !.pc = "primary_sent",
                                       !.request = [PrimaryRelayRequest(cl, q) EXCEPT
                                                      !.Sig = TRUE]],
                     !.ses.QoSInfo = OnRelaySent(q)] }

\* c.Relay / c.RelaySubscribe returned the error e
PrimarySendFailed(st, e) ==
    [st EXCEPT !.cl = [st.cl EXCEPT !.pc = "primary_returned", !.request = NilRequest,
                                    !.cbErr = e],
               !.ses.QoSInfo = OnSendError(st.ses.QoSInfo, e),
               !.h = IF e = DeadlineExceeded THEN Append(st.h, "T") ELSE st.h]

\* c.RelaySubscribe opened the stream: nothing is verified or scored
PrimaryStreamOpened(st) ==
    [st EXCEPT !.cl = [st.cl EXCEPT !.pc = "primary_returned", !.cbServer = "stream",
                                    !.cbErr = None]]

\* variant: the score is computed from the epoch the session was leased in
PrimaryReplyReceivedScoringAtLease(st, reply) ==
    LET cl == st.cl
        q == OnReplyReceived(st.ses.QoSInfo)
        relayRequest == UpdateRequestedBlock(cl.request, reply)
        verr == VerifyRelayReply(reply, relayRequest, ClientAcc(cl.sess), comparesHashes)
    IN  IF verr # None
        THEN [st EXCEPT !.cl = [cl EXCEPT !.pc = "primary_returned", !.request = NilRequest,
                                          !.requestedBlock = relayRequest.RequestBlock,
                                          !.cbErr = verr],
                        !.ses.QoSInfo = q,
                        !.h = Append(st.h, "A")]
        ELSE [st EXCEPT !.cl = [cl EXCEPT !.pc = "primary_returned", !.request = relayRequest,
                                          !.requestedBlock = relayRequest.RequestBlock,
                                          !.cbReply = reply, !.cbErr = None],
                        !.ses.QoSInfo = CalculateQoS(q, ToInt64(cl.epoch) - reply.LatestBlock),
                        !.h = Append(st.h, "A")]

\* c.Relay returned reply: counters, UpdateRequestedBlock, VerifyRelayReply, CalculateQoS
PrimaryReplyReceived(st, reply) ==
    LET cl == st.cl
        q == OnReplyReceived(st.ses.QoSInfo)
        relayRequest == UpdateRequestedBlock(cl.request, reply)
        verr == VerifyRelayReply(reply, relayRequest, ClientAcc(cl.sess), comparesHashes)
    IN  IF verr # None
        THEN [st EXCEPT !.cl = [cl EXCEPT !.pc = "primary_returned", !.request = NilRequest,
                                          !.requestedBlock = relayRequest.RequestBlock,
                                          !.cbErr = verr],
                        !.ses.QoSInfo = q,
                        !.h = Append(st.h, "A")]
        ELSE [st EXCEPT !.cl = [cl EXCEPT !.pc = "primary_returned", !.request = relayRequest,
                                          !.requestedBlock = relayRequest.RequestBlock,
                                          !.cbReply = reply, !.cbErr = None],
                        !.ses.QoSInfo = CalculateQoS(q, ExpectedBlockHeight - reply.LatestBlock),
                        !.h = Append(st.h, "A")]

\* variant: the follow-up is built whether or not blockHeight was set
CallbackSendReliabilityUnguarded(st, rs) ==
    LET cl == [st.cl EXCEPT !.relSess = rs]
    IN  { [st EXCEPT !.cl = [cl EXCEPT !.pc = "reliability_returned",
                                        !.relErr = SigningError]],
          [st EXCEPT !.cl = [cl EXCEPT !.pc = "reliability_returned",
                                        !.relErr = VrfSigningError]],
          [st EXCEPT !.cl = [cl EXCEPT !.pc = "reliability_sent",
                                        !.relRequest = [ReliabilityRelayRequest(cl) EXCEPT
                                                          !.Sig = TRUE, !.VrfSig = TRUE]]] }

\* callback_send_reliability, invoked with the session of the provider behind
\* rs, up to its transport call
CallbackSendReliability(st, rs) ==
    LET cl == [st.cl EXCEPT !.relSess = rs]
    IN  IF cl.blockHeight < 0
        THEN { [st EXCEPT !.cl = [cl EXCEPT !.pc = "reliability_returned",
                                            !.relErr = BlockHeightUnset]] }
        ELSE { [st EXCEPT !.cl = [cl EXCEPT !.pc = "reliability_returned",
                                            !.relErr = SigningError]],
               [st EXCEPT !.cl = [cl EXCEPT !.pc = "reliability_returned",
                                            !.relErr = VrfSigningError]],
               [st EXCEPT !.cl = [cl EXCEPT !.pc = "reliability_sent",
                                            !.relRequest = [ReliabilityRelayRequest(cl) EXCEPT
                                                              !.Sig = TRUE, !.VrfSig = TRUE]]] }

\* c.Relay(ctx, relayRequest) of the follow-up returned the error e
ReliabilitySendFailed(st, e) ==
    [st EXCEPT !.cl = [st.cl EXCEPT !.pc = "reliability_returned", !.relRequest = NilRequest,
                                    !.relErr = e]]

\* c.Relay of the follow-up returned reply: VerifyRelayReply decides
ReliabilityReplyReceived(st, reply) ==
    LET cl == st.cl
        res == ReliabilityResult(reply, cl.relRequest, ClientAcc(cl.relSess), comparesHashes)
    IN  [st EXCEPT !.cl = [cl EXCEPT !.pc = "reliability_returned",
                                     !.relRequest = res.request,
                                     !.relErr = res.err, !.relFin = res.fin]]

\* ---- the orchestrating layer (sentry.SendRelay) around the callbacks ----
\* the data-reliability follow-up is made for unary relays of categories that ask for it
WantsReliability(cl) == ~cl.msg.sub /\ cl.msg.rel

\* the primary callback failed: the retry loop invokes it again
SentryRetries(st) == [st EXCEPT !.cl.pc = "leased"]

\* the primary callback failed and the orchestrator gives up: no reply, the error
SentryGivesUp(st) ==
    [st EXCEPT !.cl = [st.cl EXCEPT !.pc = "sentry_returned", !.reply = NilReply,
                                    !.replyServer = None, !.err = st.cl.cbErr]]

\* the primary callback succeeded, with or without a follow-up after it: its
\* results are returned, and the follow-up's error is noted
SentryReturnsPrimary(st) ==
    [st EXCEPT !.cl = [st.cl EXCEPT !.pc = "sentry_returned", !.reply = st.cl.cbReply,
                                    !.replyServer = st.cl.cbServer, !.err = None,
                                    !.reported = st.cl.relErr]]

\* what the orchestrator does once the primary callback has returned: retry or
\* give up on an error; on success leave the retry loop and make the follow-up
\* with another provider, if one is due
AfterPrimary(st) ==
    IF st.cl.cbErr # None
    THEN {SentryGivesUp(st)} \cup
         (IF st.cl.attempts < MaxAttempts THEN {SentryRetries(st)} ELSE {})
    ELSE IF WantsReliability(st.cl)
    THEN UNION {CallbackSendReliability([st EXCEPT !.cl.attempts = 0], rs) :
                    rs \in Sessions \ {st.cl.sess}}
    ELSE {SentryReturnsPrimary(st)}

\* ---- the end of SendRelay ----
\* what is left of a call once SendRelay is over: its results, the session it
\* leased, what the orchestrator noted, and how often it called OnSessionDone
Ended(cl, pc, released) ==
    [NoCall EXCEPT !.pc = pc, !.sess = cl.sess, !.reported = cl.reported,
                   !.relFin = cl.relFin,
                   !.reply = cl.reply, !.replyServer = cl.replyServer, !.err = cl.err,
                   !.done = cl.done + released]

\* latestBlock := reply.LatestBlock dereferences reply: a nil reply panics here,
\* before OnSessionDone; otherwise the session is released and the results returned
SendRelayEnds(st) ==
    IF st.cl.reply.nil
    THEN [st EXCEPT !.cl = Ended(st.cl, "panicked", 0)]
    ELSE [st EXCEPT !.cl = Ended(st.cl, "returned", 1), !.ses = OnSessionDone(st.ses)]

\* the steps a call takes on its own, by where it stands
LocalSteps(st) ==
    CASE st.cl.pc = "leased" -> CallbackSendRelay(st)
      [] st.cl.pc = "primary_returned" -> AfterPrimary(st)
      [] st.cl.pc = "reliability_returned" -> {SentryReturnsPrimary(st)}
      [] st.cl.pc = "sentry_returned" -> {SendRelayEnds(st)}

\* where a call can next wait
RECURSIVE RunToWait(_)
RunToWait(st) ==
    IF Waiting(st.cl) THEN {st} ELSE UNION {RunToWait(n) : n \in LocalSteps(st)}

Local(c) == [cl |-> call[c], ses |-> session[call[c].sess], h |-> hist[call[c].sess]]

Commit(c, st) ==
    /\ call' = [call EXCEPT ![c] = st.cl]
    /\ session' = [session EXCEPT ![st.cl.sess] = st.ses]
    /\ hist' = [hist EXCEPT ![st.cl.sess] = st.h]

\* ---- SendRelay ----
\* variant: the session is leased before the message is parsed
ParseMsgFailsAfterLease(c) ==
    /\ call[c].pc = "start"
    /\ \E s \in FreeSessions : session' = [session EXCEPT ![s].locked = TRUE]
    /\ call' = [call EXCEPT ![c] = [NoCall EXCEPT !.pc = "returned", !.err = ParseError]]
    /\ UNCHANGED <<currentEpoch, comparesHashes, hist, verification>>

\* nodeMsg, err := cp.ParseMsg(...) fails
ParseMsgFails(c) ==
    /\ call[c].pc = "start"
    /\ call' = [call EXCEPT ![c] = [NoCall EXCEPT !.pc = "returned", !.err = ParseError]]
    /\ UNCHANGED <<session, currentEpoch, comparesHashes, hist, verification>>

\* GetSession fails
GetSessionFails(c) ==
    /\ call[c].pc = "start"
    /\ call' = [call EXCEPT ![c] = [NoCall EXCEPT !.pc = "returned", !.err = NoSessionError]]
    /\ UNCHANGED <<session, currentEpoch, comparesHashes, hist, verification>>

\* the message is parsed, GetSession leases a session (locked) with the current
\* epoch, and the orchestrator is entered with the two callbacks
SendRelay(c) ==
    /\ call[c].pc = "start"
    /\ \E m \in Messages, s \in FreeSessions :
        LET st == [cl |-> [call[c] EXCEPT !.pc = "leased", !.msg = m, !.sess = s,
                                          !.epoch = currentEpoch],
                   ses |-> [session[s] EXCEPT !.locked = TRUE],
                   h |-> hist[s]]
        IN  \E n \in RunToWait(st) : Commit(c, n)
    /\ UNCHANGED <<currentEpoch, comparesHashes, verification>>

\* ---- the transport calls come back ----
PrimarySendFails(c) ==
    /\ call[c].pc = "primary_sent"
    /\ \E e \in TransportErrors :
        \E n \in RunToWait(PrimarySendFailed(Local(c), e)) : Commit(c, n)
    /\ UNCHANGED <<currentEpoch, comparesHashes, verification>>

PrimarySubscribed(c) ==
    /\ call[c].pc = "primary_sent"
    /\ call[c].msg.sub
    /\ \E n \in RunToWait(PrimaryStreamOpened(Local(c))) : Commit(c, n)
    /\ UNCHANGED <<currentEpoch, comparesHashes, verification>>

PrimaryReplied(c) ==
    /\ call[c].pc = "primary_sent"
    /\ ~call[c].msg.sub
    /\ \E reply \in RepliesFor(ProviderKey(call[c].sess)) :
        \E n \in RunToWait(PrimaryReplyReceived(Local(c), reply)) : Commit(c, n)
    /\ UNCHANGED <<currentEpoch, comparesHashes, verification>>

\* DefaultTimeout has passed since connectCtx was made: a transport call that
\* runs under connectCtx returns the deadline error, one that runs under ctx
\* goes on
DeadlineExpires(c) ==
    /\ call[c].pc = "primary_sent"
    /\ ~call[c].expired
    /\ LET st == [Local(c) EXCEPT !.cl.expired = TRUE]
       IN  IF SendContext(call[c]) = "connectCtx"
           THEN \E n \in RunToWait(PrimarySendFailed(st, DeadlineExceeded)) : Commit(c, n)
           ELSE Commit(c, st)
    /\ UNCHANGED <<currentEpoch, comparesHashes, verification>>

ReliabilitySendFails(c) ==
    /\ call[c].pc = "reliability_sent"
    /\ \E e \in TransportErrors :
        \E n \in RunToWait(ReliabilitySendFailed(Local(c), e)) : Commit(c, n)
    /\ UNCHANGED <<currentEpoch, comparesHashes, verification>>

ReliabilityReplied(c) ==
    /\ call[c].pc = "reliability_sent"
    /\ \E reply \in RepliesFor(ProviderKey(call[c].relSess)) :
        \E n \in RunToWait(ReliabilityReplyReceived(Local(c), reply)) : Commit(c, n)
    /\ UNCHANGED <<currentEpoch, comparesHashes, verification>>

\* ---- the chain moves on while relays are in flight ----
EpochAdvances ==
    /\ currentEpoch < MaxEpoch
    /\ currentEpoch' = currentEpoch + 1
    /\ UNCHANGED <<call, session, comparesHashes, hist, verification>>

Next ==
    \/ \E c \in Calls : ParseMsgFails(c)
    \/ \E c \in Calls : GetSessionFails(c)
    \/ \E c \in Calls : SendRelay(c)
    \/ \E c \in Calls : PrimarySendFails(c)
    \/ \E c \in Calls : PrimarySubscribed(c)
    \/ \E c \in Calls : PrimaryReplied(c)
    \/ \E c \in Calls : DeadlineExpires(c)
    \/ \E c \in Calls : ReliabilitySendFails(c)
    \/ \E c \in Calls : ReliabilityReplied(c)
    \/ EpochAdvances

Spec == Init /\ [][Next]_vars

\* ---- the two callbacks under any caller ----
\* SendRelay hands its two closures to the orchestrator.  Here the caller of
\* the closures is arbitrary: it invokes either callback whenever none is
\* running, in any order, the primary one at most MaxAttempts times and the
\* follow-up once.  One call is looked at: it has parsed its message and leased
\* a session.
Idle(cl) == cl.pc \in {"leased", "primary_returned", "reliability_returned"}

CallbackInit ==
    /\ \E m \in Messages, s \in Sessions :
        /\ call = [c \in Calls |->
                    IF c = 1
                    THEN [NoCall EXCEPT !.pc = "leased", !.msg = m, !.sess = s, !.epoch = 1]
                    ELSE NoCall]
        /\ session = [t \in Sessions |-> [locked |-> t = s, QoSInfo |-> NoQoS]]
    /\ currentEpoch = 1
    /\ comparesHashes \in BOOLEAN
    /\ hist = [s \in Sessions |-> <<>>]
    /\ verification = NoVerification

CallerInvokesPrimary(c) ==
    /\ Idle(call[c])
    /\ call[c].attempts < MaxAttempts
    /\ \E n \in CallbackSendRelay(Local(c)) : Commit(c, n)
    /\ UNCHANGED <<currentEpoch, comparesHashes, verification>>

CallerInvokesReliability(c) ==
    /\ Idle(call[c])
    /\ call[c].relSess = 0
    /\ \E rs \in Sessions \ {call[c].sess} :
        \E n \in CallbackSendReliability(Local(c), rs) : Commit(c, n)
    /\ UNCHANGED <<currentEpoch, comparesHashes, verification>>

\* the transport call of a running callback comes back and the callback returns
PrimaryTransportFails(c) ==
    /\ call[c].pc = "primary_sent"
    /\ \E e \in TransportErrors : Commit(c, PrimarySendFailed(Local(c), e))
    /\ UNCHANGED <<currentEpoch, comparesHashes, verification>>

PrimaryTransportSubscribes(c) ==
    /\ call[c].pc = "primary_sent"
    /\ call[c].msg.sub
    /\ Commit(c, PrimaryStreamOpened(Local(c)))
    /\ UNCHANGED <<currentEpoch, comparesHashes, verification>>

PrimaryTransportReplies(c) ==
    /\ call[c].pc = "primary_sent"
    /\ ~call[c].msg.sub
    /\ \E reply \in RepliesFor(ProviderKey(call[c].sess)) :
        Commit(c, PrimaryReplyReceived(Local(c), reply))
    /\ UNCHANGED <<currentEpoch, comparesHashes, verification>>

ReliabilityTransportFails(c) ==
    /\ call[c].pc = "reliability_sent"
    /\ \E e \in TransportErrors : Commit(c, ReliabilitySendFailed(Local(c), e))
    /\ UNCHANGED <<currentEpoch, comparesHashes, verification>>

ReliabilityTransportReplies(c) ==
    /\ call[c].pc = "reliability_sent"
    /\ \E reply \in RepliesFor(ProviderKey(call[c].relSess)) :
        Commit(c, ReliabilityReplyReceived(Local(c), reply))
    /\ UNCHANGED <<currentEpoch, comparesHashes, verification>>

CallbackNext ==
    \/ \E c \in Calls : CallerInvokesPrimary(c)
    \/ \E c \in Calls : CallerInvokesReliability(c)
    \/ \E c \in Calls : PrimaryTransportFails(c)
    \/ \E c \in Calls : PrimaryTransportSubscribes(c)
    \/ \E c \in Calls : PrimaryTransportReplies(c)
    \/ \E c \in Calls : ReliabilityTransportFails(c)
    \/ \E c \in Calls : ReliabilityTransportReplies(c)
    \/ EpochAdvances

CallbackSpec == CallbackInit /\ [][CallbackNext]_vars

\* ---- VerifyRelayReply on its own ----
\* the keys a reply and its finalization data can be signed with, and the
\* accounts they can be bound to or expected from
VerifyKeys == {ProviderKey(s) : s \in Sessions} \cup {ConsumerKey, StrangerKey}
AddressOf(k) == Bech32Of(AccAddressFromHex(HexOf(k)))
VerifyAddrs == {AddressOf(k) : k \in VerifyKeys}
VerifyReplies ==
    {[nil |-> FALSE, LatestBlock |-> b, signer |-> k, finSigner |-> f,
      finBoundTo |-> <<"acc", a>>] :
        b \in Blocks, k \in VerifyKeys, f \in VerifyKeys, a \in VerifyKeys}

\* any reply, any expected address, cross-validation on or off; no relay running
VerifyInit ==
    /\ call = [c \in Calls |-> NoCall]
    /\ session = [s \in Sessions |-> [locked |-> FALSE, QoSInfo |-> NoQoS]]
    /\ currentEpoch = 1
    /\ comparesHashes \in BOOLEAN
    /\ hist = [s \in Sessions |-> <<>>]
    /\ verification \in {[NoVerification EXCEPT !.reply = r, !.addr = a] :
                            r \in VerifyReplies, a \in VerifyAddrs}

\* VerifyRelayReply(reply, relayRequest, addr, comparesHashes) is called
VerifyRelayReplyCalled ==
    /\ ~verification.ran
    /\ verification' =
        [verification EXCEPT
            !.ran = TRUE,
            !.err = VerifyRelayReply(verification.reply, NilRequest, verification.addr,
                                     comparesHashes),
            !.fin = VerifyRelayReplyRun(verification.reply, NilRequest, verification.addr,
                                        comparesHashes).fin]
    /\ UNCHANGED <<call, session, currentEpoch, comparesHashes, hist>>

VerifySpec == VerifyInit /\ [][VerifyRelayReplyCalled]_vars

\* ---- the claims ----
VerificationErrors == {AddressMismatch, SigBlocksMismatch}
Over(cl) == cl.pc \in {"returned", "panicked"}
InFlight(cl) == cl.pc \in {"primary_sent", "reliability_sent"}
QoSOf(s) == session[s].QoSInfo

\* C1: every SendRelay call that leased a session has made exactly one
\* OnSessionDone call for it by the time it is over, whatever the outcome.
C1_ReleasedExactlyOnce ==
    \A c \in Calls : (Over(call[c]) /\ call[c].sess # 0) => call[c].done = 1

\* C2: when VerifyRelayReply fails for the primary reply, SendRelay returns
\* (rather than never returning), with no reply and with an error.
C2_UnverifiedReplyIsAnError ==
    \A c \in Calls :
        (Over(call[c]) /\ call[c].err \in VerificationErrors) =>
            /\ call[c].pc = "returned"
            /\ call[c].reply.nil

\* C3: a unary primary relay whose reply fails verification leaves the
\* session's answered-relays counter as it was before the attempt.
C3_AnsweredUnchangedOnVerificationFailure ==
    [][\A c \in Calls :
        (/\ call[c].pc = "primary_sent"
         /\ Over(call'[c])
         /\ call'[c].err \in VerificationErrors) =>
            QoSOf(call[c].sess).AnsweredRelays' = QoSOf(call[c].sess).AnsweredRelays]_vars

\* C4: the consecutive-timeout counter increases only when a send timed out,
\* and then by exactly 1; a send that fails in another way (signing, other
\* transport error, verification) leaves it unchanged.
C4_TimeoutCounterMovesOnlyOnTimeout ==
    [][/\ \A s \in Sessions :
            QoSOf(s).ConsecutiveTimeOut' > QoSOf(s).ConsecutiveTimeOut =>
                /\ QoSOf(s).ConsecutiveTimeOut' = QoSOf(s).ConsecutiveTimeOut + 1
                /\ hist'[s] = Append(hist[s], "T")
       /\ \A c \in Calls :
            (/\ call[c].pc = "primary_sent"
             /\ Over(call'[c])
             /\ call'[c].err \in (TransportErrors \cup VerificationErrors) \ {DeadlineExceeded}) =>
                QoSOf(call[c].sess).ConsecutiveTimeOut' = QoSOf(call[c].sess).ConsecutiveTimeOut
       /\ \A c \in Calls :
            (/\ call[c].pc = "start"
             /\ Over(call'[c])
             /\ call'[c].err = SigningError) =>
                \A s \in Sessions :
                    QoSOf(s).ConsecutiveTimeOut' = QoSOf(s).ConsecutiveTimeOut
      ]_vars

\* C5: on every session, if the relays after the last answered one all timed
\* out, the consecutive-timeout counter is their number: 0 right after an
\* answered relay, k after k timeouts following it.
C5_TimeoutCounterCountsTimeoutsSinceAnswer ==
    \A s \in Sessions : \A i \in 1 .. Len(hist[s]) :
        (hist[s][i] = "A" /\ \A j \in (i + 1) .. Len(hist[s]) : hist[s][j] = "T") =>
            QoSOf(s).ConsecutiveTimeOut = Len(hist[s]) - i

C5_Witness ==
    \E s \in Sessions : hist[s] = <<"A", "T", "T">> /\ QoSOf(s).ConsecutiveTimeOut = 2

\* C6: the follow-up request asks for the block the primary reply of the same
\* call resolved to: the reply's latest block when the hint was "latest", the
\* hinted block otherwise.
C6_ReliabilityAsksForResolvedBlock ==
    \A c \in Calls :
        call[c].pc = "reliability_sent" =>
            call[c].relRequest.RequestBlock =
                IF call[c].msg.hint = LATEST_BLOCK
                THEN call[c].cbReply.LatestBlock
                ELSE call[c].msg.hint

\* the hint was "latest", the primary callback ran twice on a fresh session and
\* the second reply resolved it to another block than the first block
C6_Witness ==
    \E c \in Calls :
        /\ call[c].pc = "reliability_sent"
        /\ call[c].msg.hint = LATEST_BLOCK
        /\ hist[call[c].sess] = <<"A", "A">>
        /\ \A d \in Calls \ {c} : call[d].pc = "start"
        /\ call[c].relRequest.RequestBlock = MaxEpoch

\* C7: every request built within one call, primary or follow-up, carries the
\* epoch GetSession returned at lease time as its BlockHeight.
C7_BlockHeightPinnedToLeaseEpoch ==
    \A c \in Calls :
        /\ call[c].pc = "primary_sent" => call[c].request.BlockHeight = call[c].epoch
        /\ call[c].pc = "reliability_sent" =>
            /\ call[c].request.BlockHeight = call[c].epoch
            /\ call[c].relRequest.BlockHeight = call[c].epoch

\* a follow-up in flight after the chain moved to another epoch than the lease's
C7_Witness ==
    \E c \in Calls :
        /\ call[c].pc = "reliability_sent"
        /\ call[c].relRequest.BlockHeight = call[c].epoch
        /\ currentEpoch # call[c].epoch

\* C8: no two calls have a relay in flight on the same session, and a session
\* with a relay in flight is locked.
C8_SessionExclusivelyOwned ==
    \A c \in Calls :
        InFlight(call[c]) =>
            /\ session[call[c].sess].locked
            /\ \A d \in Calls \ {c} : InFlight(call[d]) => call[d].sess # call[c].sess

\* two calls in flight at once
C8_Witness ==
    \E c \in Calls, d \in Calls :
        /\ c # d
        /\ InFlight(call[c])
        /\ InFlight(call[d])

\* C9: a follow-up that fails (its transport call fails, or its reply fails
\* verification) ends the call with the primary reply returned and with the
\* failure noted by the orchestrator.
C9_ReliabilityFailureKeepsPrimaryReply ==
    [][\A c \in Calls :
        (/\ call[c].pc = "reliability_sent"
         /\ \/ \E e \in TransportErrors :
                \E n \in RunToWait(ReliabilitySendFailed(Local(c), e)) : call'[c] = n.cl
            \/ \E reply \in RepliesFor(ProviderKey(call[c].relSess)) :
                /\ VerifyRelayReply(reply, call[c].relRequest, ClientAcc(call[c].relSess),
                                    comparesHashes) # None
                /\ \E n \in RunToWait(ReliabilityReplyReceived(Local(c), reply)) :
                    call'[c] = n.cl) =>
            /\ call'[c].pc = "returned"
            /\ ~call[c].cbReply.nil
            /\ call'[c].reply = call[c].cbReply
            /\ call'[c].err = None
            /\ call'[c].reported \in TransportErrors \cup VerificationErrors]_vars

C9_Witness ==
    \E c \in Calls :
        /\ call[c].pc = "returned"
        /\ ~call[c].reply.nil
        /\ call[c].reported \in VerificationErrors

\* C10: whenever the follow-up reply is verified, the finalization check is run,
\* whether or not the spec compares hashes.
C10_ReliabilityAlwaysCrossValidated ==
    \A c \in Calls : call[c].relFin # "skipped"

\* C11: with cross-validation on, VerifyRelayReply fails for every reply whose
\* finalization data is not bound to the consumer's address, also when the
\* reply itself is signed by the expected provider.
C11_FinalizationBoundToConsumer ==
    (/\ verification.ran
     /\ comparesHashes
     /\ verification.reply.finBoundTo # AccAddressFromHex(HexOf(ConsumerKey))) =>
        verification.err # None

\* C12: with cross-validation off, VerifyRelayReply passes exactly when the
\* reply is signed by the key of the expected address, fails with the address
\* mismatch otherwise, and leaves everything but its own outcome as it was.
C12_PassesExactlyForExpectedSigner ==
    /\ [](\A p \in VerifyKeys :
            (/\ verification.ran
             /\ ~comparesHashes
             /\ verification.addr = AddressOf(p)) =>
                /\ verification.err = None <=> verification.reply.signer = p
                /\ verification.err \in {None, AddressMismatch})
    /\ [][/\ UNCHANGED <<call, session, currentEpoch, comparesHashes, hist>>
          /\ verification'.reply = verification.reply
          /\ verification'.addr = verification.addr]_vars

\* a reply signed by the expected provider passes although its finalization data
\* is signed by a stranger
C12_Witness ==
    /\ verification.ran
    /\ ~comparesHashes
    /\ verification.err = None
    /\ verification.reply.signer = ProviderKey(1)
    /\ verification.reply.finSigner = StrangerKey

\* C13: once the stream of a subscription has opened, the call is over with the
\* session released, and the attempt has left the session's answered-relays
\* counter, consecutive-timeout counter and last QoS report as they were.
C13_SubscriptionReleasedUnscored ==
    [][\A c \in Calls :
        (/\ call[c].pc = "primary_sent"
         /\ call[c].msg.sub
         /\ Over(call'[c])
         /\ call'[c].replyServer = "stream") =>
            /\ QoSOf(call[c].sess).AnsweredRelays' = QoSOf(call[c].sess).AnsweredRelays
            /\ QoSOf(call[c].sess).ConsecutiveTimeOut' = QoSOf(call[c].sess).ConsecutiveTimeOut
            /\ QoSOf(call[c].sess).LastQoSReport' = QoSOf(call[c].sess).LastQoSReport
            /\ hist' = hist
            /\ call'[c].pc = "returned"
            /\ call'[c].done = 1
            /\ ~session'[call[c].sess].locked]_vars

\* C14: when the deadline of DefaultTimeout passes, a unary primary send in
\* flight ends as a timeout (counted on its session), while a subscription send
\* stays in flight with nothing else changed.
C14_DeadlineBoundsOnlyUnarySend ==
    [][\A c \in Calls :
        DeadlineExpires(c) =>
            IF call[c].msg.sub
            THEN /\ call'[c] = [call[c] EXCEPT !.expired = TRUE]
                 /\ session' = session
                 /\ hist' = hist
            ELSE /\ hist'[call[c].sess] = Append(hist[call[c].sess], "T")
                 /\ QoSOf(call[c].sess).ConsecutiveTimeOut' =
                        QoSOf(call[c].sess).ConsecutiveTimeOut + 1
                 /\ \/ Over(call'[c]) /\ call'[c].err \in {DeadlineExceeded, SigningError}
                    \/ call'[c].pc = "primary_sent" /\ call'[c].attempts > call[c].attempts
      ]_vars

\* a subscription send still in flight after the deadline has passed
C14_Witness ==
    \E c \in Calls :
        /\ call[c].pc = "primary_sent"
        /\ call[c].msg.sub
        /\ call[c].expired

\* the primary reply a call has accepted, if any
AcceptedReply(cl) == IF Over(cl) THEN cl.reply ELSE cl.cbReply

\* C15: a session's last QoS report changes only in the step in which a unary
\* primary reply on it is received and passes verification, and such a step
\* sets it to the score of the deviation between the expected block height read
\* in that step and the reply's latest block.
C15_ScoredOnlyWhenVerifiedWithCurrentValues ==
    [][/\ \A s \in Sessions :
            QoSOf(s).LastQoSReport' # QoSOf(s).LastQoSReport =>
                \E c \in Calls :
                    /\ call[c].sess = s
                    /\ call[c].pc = "primary_sent"
                    /\ ~call[c].msg.sub
                    /\ hist'[s] = Append(hist[s], "A")
                    /\ ~AcceptedReply(call'[c]).nil
                    /\ VerifyRelayReply(AcceptedReply(call'[c]), call[c].request,
                                        ClientAcc(s), comparesHashes) = None
       /\ \A c \in Calls :
            (/\ call[c].pc = "primary_sent"
             /\ hist'[call[c].sess] = Append(hist[call[c].sess], "A")
             /\ ~AcceptedReply(call'[c]).nil) =>
                QoSOf(call[c].sess).LastQoSReport' =
                    [nil |-> FALSE,
                     Deviation |-> currentEpoch - AcceptedReply(call'[c]).LatestBlock]
      ]_vars

\* a reply reporting the block of the lease epoch was scored with deviation 1:
\* the expected block height had moved on since the lease
C15_Witness ==
    \E c \in Calls :
        /\ call[c].pc = "reliability_sent"
        /\ call[c].epoch = 1
        /\ call[c].cbReply.LatestBlock = 1
        /\ QoSOf(call[c].sess).LastQoSReport = [nil |-> FALSE, Deviation |-> 1]

SigningErrors == {SigningError, VrfSigningError}

\* C16: a call that ends because SignRelay failed in the primary callback has
\* sent and counted no relay in that attempt (none at all if it sent none
\* before), and a follow-up whose signing failed was never put on the wire and
\* has changed no session.
C16_NothingSentWhenSigningFails ==
    [][\A c \in Calls :
        /\ (/\ ~Over(call[c])
            /\ Over(call'[c])
            /\ call'[c].err = SigningError) =>
                /\ session'[call'[c].sess].QoSInfo.TotalRelays =
                        session[call'[c].sess].QoSInfo.TotalRelays
                /\ call[c].pc \in {"start", "primary_sent"}
                /\ call[c].pc = "start" =>
                        /\ \A s \in Sessions : session'[s].QoSInfo = session[s].QoSInfo
                        /\ hist' = hist
        /\ (/\ ~Over(call[c])
            /\ Over(call'[c])
            /\ call'[c].reported \in SigningErrors) =>
                /\ call[c].pc = "primary_sent"
                /\ session'[call[c].sess].QoSInfo.TotalRelays =
                        session[call[c].sess].QoSInfo.TotalRelays
                /\ \A s \in Sessions \ {call[c].sess} : session'[s] = session[s]
      ]_vars

\* a call that ended on a signing failure, on a session that never sent a relay
C16_Witness ==
    \E c \in Calls :
        /\ Over(call[c])
        /\ call[c].err = SigningError
        /\ QoSOf(call[c].sess) = NoQoS

\* C17: between two waits a call counts at most one new relay on a session (a
\* callback invocation makes at most one transport call and nothing is resent
\* on the side), and a call whose orchestrator returned an error returns, with
\* that error.
C17_NoRetryAndErrorReturned ==
    [][/\ \A s \in Sessions :
            session'[s].QoSInfo.TotalRelays <= session[s].QoSInfo.TotalRelays + 1
       /\ \A c \in Calls :
            (/\ ~Over(call[c])
             /\ Over(call'[c])
             /\ call'[c].sess # 0
             /\ call'[c].err # None) =>
                call'[c].pc = "returned"
      ]_vars

\* C18: a call that ends because ParseMsg or GetSession failed returns the
\* error with no reply and no stream, holds no session, has released none, and
\* has left every session and its record of relays untouched.
C18_ParseAndLeaseFailuresTouchNoSession ==
    [][\A c \in Calls :
        (/\ call[c].pc = "start"
         /\ Over(call'[c])
         /\ call'[c].err \in {ParseError, NoSessionError}) =>
            /\ call'[c].pc = "returned"
            /\ call'[c].reply.nil
            /\ call'[c].replyServer = None
            /\ call'[c].request.nil
            /\ call'[c].sess = 0
            /\ call'[c].done = 0
            /\ session' = session
            /\ hist' = hist]_vars

\* one call returned the parse error, another the lease error, no session is held
C18_Witness ==
    \E c \in Calls, d \in Calls :
        /\ call[c].pc = "returned" /\ call[c].err = ParseError
        /\ call[d].pc = "returned" /\ call[d].err = NoSessionError
        /\ \A s \in Sessions : ~session[s].locked

\* C19: whoever calls the callbacks, a follow-up is in flight only after the
\* primary callback was invoked and carries the pinned block height; the
\* follow-up callback invoked while blockHeight is still -1 returns its error
\* with no request built and nothing changed.
C19_NoReliabilityBeforePrimary ==
    /\ [](\A c \in Calls :
            call[c].pc = "reliability_sent" =>
                /\ call[c].attempts >= 1
                /\ call[c].relRequest.BlockHeight = call[c].epoch)
    /\ [][\A c \in Calls :
            (/\ call[c].relSess = 0
             /\ call'[c].relSess # 0
             /\ call[c].blockHeight = UnsetBlockHeight) =>
                /\ call'[c] = [call[c] EXCEPT !.pc = "reliability_returned",
                                              !.relSess = call'[c].relSess,
                                              !.relErr = BlockHeightUnset]
                /\ call'[c].relRequest.nil
                /\ session' = session
                /\ hist' = hist]_vars

\* the follow-up callback was invoked first and returned its error
C19_Witness ==
    \E c \in Calls :
        /\ call[c].pc = "reliability_returned"
        /\ call[c].attempts = 0
        /\ call[c].relErr = BlockHeightUnset

TotalOf(s) == session[s].QoSInfo.TotalRelays
AnsweredOf(s) == session[s].QoSInfo.AnsweredRelays

\* C20: on every session answered relays <= total relays; a primary attempt
\* that is put on the wire raises the total by exactly 1 and nothing else raises
\* it; the answered counter rises by at most 1, and only when a unary primary
\* reply comes in; a step of the follow-up changes neither counter.
C20_AnsweredAtMostTotal ==
    /\ [](\A s \in Sessions : AnsweredOf(s) <= TotalOf(s))
    /\ [][/\ \A c \in Calls :
                (call'[c].pc = "primary_sent" /\ call'[c].attempts # call[c].attempts) =>
                    session'[call'[c].sess].QoSInfo.TotalRelays = TotalOf(call'[c].sess) + 1
          /\ \A s \in Sessions :
                /\ TotalOf(s)' \in {TotalOf(s), TotalOf(s) + 1}
                /\ AnsweredOf(s)' \in {AnsweredOf(s), AnsweredOf(s) + 1}
                /\ TotalOf(s)' # TotalOf(s) =>
                        \E c \in Calls :
                            /\ call'[c].sess = s
                            /\ call'[c].pc = "primary_sent"
                            /\ call'[c].attempts # call[c].attempts
                /\ AnsweredOf(s)' # AnsweredOf(s) =>
                        \E c \in Calls :
                            /\ call[c].sess = s
                            /\ call[c].pc = "primary_sent"
                            /\ ~call[c].msg.sub
                            /\ hist'[s] = Append(hist[s], "A")
          /\ \A c \in Calls :
                (call[c].pc = "reliability_sent" /\ call'[c] # call[c]) =>
                    \A s \in Sessions : session'[s].QoSInfo = session[s].QoSInfo
         ]_vars

\* a session with three relays sent and two of them answered
C20_Witness ==
    \E s \in Sessions : TotalOf(s) = 3 /\ AnsweredOf(s) = 2

====
